---- MODULE Spec2Model ----
(***************************************************************************)
(* Model of backend/windmill-worker/src/bash_executor.rs: the two job      *)
(* pipelines handle_bash_job and handle_powershell_job, the recursive      *)
(* import resolver handle_powershell_deps with its helper parse_path, and  *)
(* the result extraction that ends both pipelines.                         *)
(*                                                                         *)
(* Text is modelled as a sequence of one-character strings, a script as a  *)
(* sequence of lines.  The keyword of an import statement together with    *)
(* the white space after it is the single token IM.                        *)
(***************************************************************************)
EXTENDS Integers, Sequences, FiniteSets, TLC

\* ------------------------------------------------------------------ bounds
\* the longest script (in lines) held by the store or given as root
MaxLines == 2
\* the lines of the root and the store together, when one resolution pass
\* is explored alone (SpecDeps)
MaxPassLines == 3
\* the same, when the jobs are run from start to end (Spec)
MaxJobLines == 2

\* ------------------------------------------------------------------- text
IM == "Import-Module "
PS1 == <<".", "p", "s", "1">>
MAIN_KEY == <<"m", "a", "i", "n">>

\* str::to_lowercase, on the characters the model uses
LowerChar(c) == CASE c = "A" -> "a" [] c = "Z" -> "z" [] c = "E" -> "e" [] OTHER -> c

to_lowercase(s) == [i \in 1..Len(s) |-> LowerChar(s[i])]

starts_with(s, p) == Len(p) <= Len(s) /\ SubSeq(s, 1, Len(p)) = p

\* str::replace: every non-overlapping occurrence of pat, left to right
RECURSIVE replace(_, _, _)
replace(s, pat, rep) ==
    IF Len(s) < Len(pat) \/ Len(pat) = 0 THEN s
    ELSE IF SubSeq(s, 1, Len(pat)) = pat
         THEN rep \o replace(SubSeq(s, Len(pat) + 1, Len(s)), pat, rep)
         ELSE <<Head(s)>> \o replace(Tail(s), pat, rep)

\* str::replace on a script; the patterns never hold a line break
replace_lines(text, pat, rep) == [i \in 1..Len(text) |-> replace(text[i], pat, rep)]

\* ------------------------------------------------------------------ paths
\* the text between the '/' separators
RECURSIVE Segments(_)
Segments(s) ==
    IF \A i \in 1..Len(s) : s[i] # "/" THEN <<s>>
    ELSE LET k == CHOOSE i \in 1..Len(s) : s[i] = "/" /\ \A j \in 1..(i - 1) : s[j] # "/"
         IN  <<SubSeq(s, 1, k - 1)>> \o Segments(SubSeq(s, k + 1, Len(s)))

ROOT_DIR == <<"/">>
CUR_DIR == <<".">>
PARENT_DIR == <<".", ".">>

\* Path::components: a leading root marker, no empty segment, and '.' only
\* as the first component of a relative path
Components(path) ==
    LET segs == Segments(path)
        keep(i) == /\ segs[i] # <<>>
                   /\ (segs[i] = CUR_DIR => i = 1)
        kept == SelectSeq([i \in 1..Len(segs) |-> <<i, segs[i]>>], LAMBDA p : keep(p[1]))
        body == [i \in 1..Len(kept) |-> kept[i][2]]
    IN  IF path # <<>> /\ path[1] = "/" THEN <<ROOT_DIR>> \o body ELSE body

\* PathBuf as its components; to_str joins them
RECURSIVE JoinComps(_)
JoinComps(cs) ==
    IF cs = <<>> THEN <<>>
    ELSE IF Len(cs) = 1 THEN cs[1]
    ELSE IF cs[1] = ROOT_DIR THEN ROOT_DIR \o JoinComps(Tail(cs))
    ELSE cs[1] \o <<"/">> \o JoinComps(Tail(cs))

\* the root marker removed like a segment
pop_PastRoot(cs) == IF cs = <<>> THEN cs ELSE SubSeq(cs, 1, Len(cs) - 1)

\* PathBuf::pop: nothing to remove from the empty path or from the root
pop(cs) == IF cs = <<>> \/ cs = <<ROOT_DIR>> THEN cs ELSE SubSeq(cs, 1, Len(cs) - 1)

RECURSIVE FoldComponents(_, _)
FoldComponents(result, cs) ==
    IF cs = <<>> THEN result
    ELSE LET c == Head(cs)
         IN  IF c = PARENT_DIR THEN FoldComponents(pop(result), Tail(cs))
             ELSE IF c = CUR_DIR THEN FoldComponents(result, Tail(cs))
             ELSE FoldComponents(Append(result, c), Tail(cs))

parse_path(path) ==
    LET cs == Components(path)
    IN  IF cs # <<>> /\ cs[1] = ROOT_DIR
        THEN JoinComps(FoldComponents(<<ROOT_DIR>>, Tail(cs)))
        ELSE JoinComps(FoldComponents(<<>>, cs))

\* Path::parent of a path that has one: the path without its last component
parent(path) == JoinComps(pop(Components(path)))

\* Path::join with a relative right-hand side
join(base, rel) == IF base = <<>> THEN rel ELSE base \o <<"/">> \o rel

\* ---------------------------------------------------- import statements
\* a character the module name of RE_POWERSHELL_IMPORTS may hold: [^-\s'"]
NameChar(c) == c \notin {"-", " ", "'", "\"", IM}

RECURSIVE TakeName(_)
TakeName(s) ==
    IF s = <<>> \/ ~NameChar(Head(s)) THEN <<>> ELSE <<Head(s)>> \o TakeName(Tail(s))

\* RE_POWERSHELL_IMPORTS on one line: anchored at the start of the line, so
\* at most one capture; raw is the unquoted module name, whole the match
RE_POWERSHELL_IMPORTS(line) ==
    LET raw == IF line # <<>> /\ Head(line) = IM THEN TakeName(Tail(line)) ELSE <<>>
    IN  [matched |-> raw # <<>>, raw |-> raw, whole |-> <<IM>> \o raw]

\* let mut module = raw_module.to_string().replace(".ps1", "")
ModuleOf(raw_module) == replace(raw_module, PS1, <<>>)

IsInternal(module) ==
    \/ starts_with(module, <<"f", "/">>)
    \/ starts_with(module, <<"u", "/">>)
    \/ starts_with(module, <<".">>)

IsRelative(module) ==
    /\ ~starts_with(module, <<"f", "/">>)
    /\ ~starts_with(module, <<"u", "/">>)
    /\ starts_with(module, <<".">>)

\* the key without the alias of the root
ModuleKey_NoAlias(module, source_file_name) ==
    IF IsRelative(module)
    THEN parse_path(join(parent(source_file_name), module))
    ELSE module

\* the canonical key of an internal module: a relative name is joined to the
\* directory of the root script and normalised, the root's own key is "main"
ModuleKey(module, source_file_name) ==
    LET m == IF IsRelative(module)
             THEN parse_path(join(parent(source_file_name), module))
             ELSE module
    IN  IF m = source_file_name THEN MAIN_KEY ELSE m

\* format!("{}.ps1", &module.replace('/', "."))
FileName(key) == replace(key, <<"/">>, <<".">>) \o PS1

\* whole_match.replace(raw_module, &format!("./{}", file_name))
ImportString(whole_match, raw_module, file_name) ==
    replace(whole_match, raw_module, <<".", "/">> \o file_name)

\* code_content.replace(whole_match, &import_string)
Rewrite(code_content, whole_match, raw_module, file_name) ==
    replace_lines(code_content, whole_match, ImportString(whole_match, raw_module, file_name))

\* ----------------------------------------------------------------- inputs
\* job.script_path(): the root script is f/r
SCRIPT_PATH == <<"f", "/", "r">>

KEY_A == <<"f", "/", "a">>
KEY_B == <<"f", "/", "b">>

\* the module names the import statements of the model's scripts use: an
\* absolute and a relative internal name, the root's own path, an external
\* module, two cached modules, and the current-directory marker alone
RawNames ==
    { KEY_A, <<".", "/", "b">>, SCRIPT_PATH, <<"E", "x", "t">>,
      <<"A", "z">>, <<".", "A", "z">>, <<".">> }

\* a line that is no import statement
CODE_LINE == <<"$", "x">>

Lines == { <<IM>> \o n : n \in RawNames } \cup {CODE_LINE}

\* the scripts of n lines
Scripts(n) == [1..n -> Lines]

\* the entries of POWERSHELL_CACHE_DIR
CACHE_DIR_ENTRIES == { <<"A", "z">>, <<".", "A", "z">> }

\* Option<String> of fetch_optional
None == [some |-> FALSE, content |-> <<>>]
Some(c) == [some |-> TRUE, content |-> c]

StoreKeys == {KEY_A, KEY_B}

\* what the script table may hold under a key: no row, or a script of n lines
Rows(n) == { Some(c) : c \in Scripts(n) } \cup (IF n = 0 THEN {None} ELSE {})

LinesIn(st, root) ==
    Len(root) + Len(st[KEY_A].content) + Len(st[KEY_B].content)

\* std::process::Command keeps the environment of the child as a map; a
\* Command that is not cleared starts from the environment of the worker
WORKER_ENV == [n \in {"PATH", "DATABASE_URL"} |-> "worker"]

env_clear(e) == << >>

\* Command::envs: the entries of vs, over what e holds
Envs(e, vs) == [n \in DOMAIN e \cup DOMAIN vs |-> IF n \in DOMAIN vs THEN vs[n] ELSE e[n]]

\* Command::env
Env(e, key, val) == Envs(e, [n \in {key} |-> val])

\* what get_reserved_variables returns: the variables of the job
get_reserved_variables == [n \in {"WM_JOB_ID", "WM_TOKEN"} |-> "reserved"]

\* reserved_variables.insert("RUST_LOG", "info")
reserved_variables == Env(get_reserved_variables, "RUST_LOG", "info")

\* what the caller may pass as envs: nothing, a variable of its own, or
\* variables whose names the handler sets as well
EnvsGiven ==
    { << >>,
      [n \in {"WHITELISTED"} |-> "envs"],
      [n \in {"PATH", "HOME", "WM_TOKEN"} |-> "envs"] }

\* the lines of the scripts when two jobs run together: an internal import,
\* an external one, a cached one, and a line without import
TwoJobLines ==
    { <<IM>> \o KEY_A, <<IM>> \o <<"E", "x", "t">>, <<IM>> \o <<"A", "z">>, CODE_LINE }

\* the lines of the two roots and of the stored script together
MaxTwoJobLines == 3

\* the directory the worker gives to a job
job_dir_Shared(j) == <<"job">>

job_dir(j) == <<"job", j>>

\* the paths parse_path is applied to: relative and absolute, of up to
\* MaxComponents segments, with '.', '..' and empty segments among them
MaxComponents == 4

PathSegments == { <<"a">>, <<"b">>, <<"c">>, <<".">>, <<".", ".">>, << >> }

RECURSIVE JoinSegments(_)
JoinSegments(segs) ==
    IF segs = << >> THEN << >>
    ELSE IF Len(segs) = 1 THEN segs[1]
    ELSE segs[1] \o <<"/">> \o JoinSegments(Tail(segs))

RECURSIVE SegmentLists(_)
SegmentLists(n) ==
    IF n = 0 THEN { << >> }
    ELSE LET shorter == SegmentLists(n - 1)
         IN  shorter \cup { Append(q, x) : q \in shorter, x \in PathSegments }

Paths ==
    { JoinSegments(segs) : segs \in SegmentLists(MaxComponents) }
        \cup { <<"/">> \o JoinSegments(segs) : segs \in SegmentLists(MaxComponents) }

\* the parameters a script may declare
ParamNames == { <<"a">>, <<"b">> }

\* the most parameters a signature of the model holds
MaxParams == 2

RECURSIVE SeqsUpTo(_, _)
SeqsUpTo(S, n) ==
    IF n = 0 THEN { << >> }
    ELSE LET shorter == SeqsUpTo(S, n - 1)
         IN  shorter \cup { Append(q, x) : q \in shorter, x \in S }

Signatures == SeqsUpTo(ParamNames, MaxParams)

\* the raw JSON text of an argument: two strings, a number, an array written
\* with white space, null
JSON_X == <<"\"", "x", "\"">>
JSON_EMPTY_STRING == <<"\"", "\"">>
JSON_ONE == <<"1">>
JSON_ARRAY == <<"[", "1", ",", " ", "2", "]">>
JSON_NULL == <<"n", "u", "l", "l">>

ArgValues == { JSON_X, JSON_EMPTY_STRING, JSON_ONE, JSON_ARRAY, JSON_NULL }

\* the argument mappings: any subset of the parameters, any values
ArgMaps == UNION { [D -> ArgValues] : D \in SUBSET ParamNames }

\* serde_json::from_str::<Value>: a string, another value, or no JSON at all
IsJsonString(x) == Len(x) >= 2 /\ x[1] = "\"" /\ x[Len(x)] = "\""

IsJson(x) == IsJsonString(x) \/ x \in { JSON_ONE, JSON_ARRAY, JSON_NULL }

\* serde_json::to_string of a value that is no string: the compact form
to_string(x) == SelectSeq(x, LAMBDA c : c # " ")

\* a string kept in its quotes
raw_to_string_Quoted(x) == IF IsJson(x) THEN to_string(x) ELSE << >>

raw_to_string(x) ==
    IF IsJsonString(x) THEN SubSeq(x, 2, Len(x) - 1)
    ELSE IF IsJson(x) THEN to_string(x)
    ELSE << >>

\* ------------------------------------------------------------------ state
VARIABLES
    lang,               \* "bash" or "powershell": which handler runs the job
    disable_nsjail,     \* DISABLE_NSJAIL
    content,            \* the script of the job
    store,              \* the script table: path -> latest content
    pc,                 \* the handler's position
    installed_modules,  \* handle_powershell_job: lower-case cache entry names
    stack,              \* the activations of handle_powershell_deps, innermost last
    visited_nodes,      \* handle_powershell_job: visited_nodes
    install_string,     \* handle_powershell_job: one entry per Save-Module directive
    logs,               \* handle_powershell_job: logs1
    code_content,       \* handle_powershell_job: what handle_powershell_deps returned
    files,              \* job_dir: file name -> content
    todo,               \* the setup files still to be written, in order
    procs,              \* every child process started, in order
    job_result,         \* what the handler returned
    fetched,            \* history: the queries of the script table and their answers
    written,            \* history: the dependency files written, in order
    scanned,            \* history: the scripts handle_powershell_deps was called on
    steps,              \* history: steps of the resolution pass so far
    envs,               \* the handler's parameter envs: variable name -> value
    job_args,           \* the arguments of the job: parameter name -> raw JSON text
    sig,                \* the parameters parse_bash_sig / parse_powershell_sig found
    reads,              \* history: the result artifacts the handler has consulted
    path,               \* parse_path: its argument
    parsed,             \* parse_path: what it returned
    cur,                \* the job whose handler the variables above belong to
    parked              \* the handler state of the other job, when two jobs run

vars ==
    << lang, disable_nsjail, content, store, pc, installed_modules, stack,
       visited_nodes, install_string, logs, code_content, files, todo, procs,
       job_result, fetched, written, scanned, steps, envs, job_args, sig, reads,
       path, parsed, cur, parked >>

NoResult == [tag |-> "none", kind |-> "", value |-> <<>>, error |-> ""]
Ok(kind, value) == [tag |-> "ok", kind |-> kind, value |-> value, error |-> ""]
Err(error) == [tag |-> "err", kind |-> "", value |-> <<>>, error |-> error]

InitCommon ==
    /\ disable_nsjail \in BOOLEAN
    /\ pc = "start"
    /\ installed_modules = {}
    /\ stack = <<>>
    /\ visited_nodes = {}
    /\ install_string = <<>>
    /\ logs = <<>>
    /\ code_content = <<>>
    /\ files = <<>>
    /\ todo = <<>>
    /\ procs = <<>>
    /\ job_result = NoResult
    /\ fetched = <<>>
    /\ written = <<>>
    /\ scanned = <<>>
    /\ steps = 0
    /\ reads = <<>>

\* a job without parameters, and a handler called without envs
InitNoArgs ==
    /\ envs = <<>>
    /\ job_args = <<>>
    /\ sig = <<>>

NotParsed == [done |-> FALSE, result |-> <<>>]

InitNoPath ==
    /\ path = <<>>
    /\ parsed = NotParsed

NoJob == [pc |-> "none"]

\* one job on the worker
InitOneJob ==
    /\ cur = 1
    /\ parked = NoJob

InitBash ==
    /\ lang = "bash"
    /\ content = <<>>
    /\ store = [k \in StoreKeys |-> None]
    /\ InitCommon
    /\ InitNoArgs
    /\ InitNoPath
    /\ InitOneJob

InitPowershell(max_lines) ==
    /\ lang = "powershell"
    /\ \E nr \in 0..MaxLines, na \in 0..MaxLines, nb \in 0..MaxLines :
         /\ nr + na + nb <= max_lines
         /\ content \in Scripts(nr)
         /\ \E ra \in Rows(na), rb \in Rows(nb) :
              store = [k \in StoreKeys |-> IF k = KEY_A THEN ra ELSE rb]
    /\ InitCommon
    /\ InitNoArgs
    /\ InitNoPath
    /\ InitOneJob

Init == InitBash \/ InitPowershell(MaxJobLines)

\* a powershell job whose resolution pass is explored alone
InitDeps == InitPowershell(MaxPassLines)

\* ------------------------------------------------- handle_powershell_deps
Frame(c, file_name) == [content |-> c, code_content |-> c, i |-> 1, file_name |-> file_name]

Top == stack[Len(stack)]

SetTop(f) == [stack EXCEPT ![Len(stack)] = f]

AtLine == pc = "deps" /\ stack # <<>> /\ Top.i <= Len(Top.content)

Cap == RE_POWERSHELL_IMPORTS(Top.content[Top.i])

\* sqlx fetch_optional on the script table; the table holds the job's own
\* script under its path
StoreGet(key) ==
    IF key = SCRIPT_PATH THEN Some(content)
    ELSE IF key \in DOMAIN store THEN store[key] ELSE None

\* every dependency file taken to exist
Exists_Always(file_name) == TRUE

Exists(file_name) == file_name \in DOMAIN files

WriteFile(file_name, text) ==
    [n \in DOMAIN files \cup {file_name} |-> IF n = file_name THEN text ELSE files[n]]

\* what no step of a handler changes
UnchangedInputs == UNCHANGED << envs, job_args, sig, path, parsed, cur, parked >>

UnchangedJob ==
    /\ UNCHANGED << lang, disable_nsjail, content, store, installed_modules, reads >>
    /\ UnchangedInputs

\* a line without an import statement: captures_iter yields nothing
DepsNoImport ==
    /\ AtLine
    /\ ~Cap.matched
    /\ stack' = SetTop([Top EXCEPT !.i = @ + 1])
    /\ steps' = steps + 1
    /\ UNCHANGED << pc, visited_nodes, install_string, logs, code_content, files, todo,
                    procs, job_result, fetched, written, scanned >>
    /\ UnchangedJob

\* the module is in the cache: only the log line
DepsCacheHit ==
    /\ AtLine
    /\ Cap.matched
    /\ to_lowercase(ModuleOf(Cap.raw)) \in installed_modules
    /\ logs' = Append(logs, <<Cap.raw, "found in cache">>)
    /\ stack' = SetTop([Top EXCEPT !.i = @ + 1])
    /\ steps' = steps + 1
    /\ UNCHANGED << pc, visited_nodes, install_string, code_content, files, todo,
                    procs, job_result, fetched, written, scanned >>
    /\ UnchangedJob

\* a module named twice gets one directive
DepsExternal_Deduplicated ==
    /\ pc = "deps" /\ stack # <<>> /\ stack[Len(stack)].i <= Len(stack[Len(stack)].content)
    /\ RE_POWERSHELL_IMPORTS(stack[Len(stack)].content[stack[Len(stack)].i]).matched
    /\ LET raw == RE_POWERSHELL_IMPORTS(stack[Len(stack)].content[stack[Len(stack)].i]).raw
       IN  /\ to_lowercase(ModuleOf(raw)) \notin installed_modules
           /\ ~IsInternal(ModuleOf(raw))
           /\ logs' = Append(logs, <<raw, "not found in cache">>)
           /\ install_string' =
                IF \E i \in DOMAIN install_string : install_string[i] = raw
                THEN install_string ELSE Append(install_string, raw)
    /\ stack' = [stack EXCEPT ![Len(stack)].i = @ + 1]
    /\ steps' = steps + 1
    /\ UNCHANGED << pc, visited_nodes, code_content, files, todo, procs, job_result,
                    fetched, written, scanned, lang, disable_nsjail, content, store,
                    installed_modules, envs, job_args, sig, reads, path, parsed, cur,
                    parked >>

\* the module installed at once, by a process of its own
DepsExternal_InstallAtOnce ==
    /\ pc = "deps" /\ stack # <<>> /\ stack[Len(stack)].i <= Len(stack[Len(stack)].content)
    /\ RE_POWERSHELL_IMPORTS(stack[Len(stack)].content[stack[Len(stack)].i]).matched
    /\ LET raw == RE_POWERSHELL_IMPORTS(stack[Len(stack)].content[stack[Len(stack)].i]).raw
       IN  /\ to_lowercase(ModuleOf(raw)) \notin installed_modules
           /\ ~IsInternal(ModuleOf(raw))
           /\ logs' = Append(logs, <<raw, "not found in cache">>)
           /\ install_string' = Append(install_string, raw)
           /\ procs' = Append(procs, [label |-> "powershell install", program |-> "pwsh",
                                      nsjail |-> FALSE, args |-> <<raw>>,
                                      env |-> WORKER_ENV, status |-> "ok"])
    /\ stack' = [stack EXCEPT ![Len(stack)].i = @ + 1]
    /\ steps' = steps + 1
    /\ UNCHANGED << pc, visited_nodes, code_content, files, todo, job_result, fetched,
                    written, scanned, lang, disable_nsjail, content, store,
                    installed_modules, envs, job_args, sig, reads, path, parsed, cur,
                    parked >>

\* an external module that is not in the cache: one Save-Module directive
DepsExternal ==
    /\ AtLine
    /\ Cap.matched
    /\ to_lowercase(ModuleOf(Cap.raw)) \notin installed_modules
    /\ ~IsInternal(ModuleOf(Cap.raw))
    /\ logs' = Append(logs, <<Cap.raw, "not found in cache">>)
    /\ install_string' = Append(install_string, Cap.raw)
    /\ stack' = SetTop([Top EXCEPT !.i = @ + 1])
    /\ steps' = steps + 1
    /\ UNCHANGED << pc, visited_nodes, code_content, files, todo,
                    procs, job_result, fetched, written, scanned >>
    /\ UnchangedJob

InternalMiss ==
    /\ AtLine
    /\ Cap.matched
    /\ to_lowercase(ModuleOf(Cap.raw)) \notin installed_modules
    /\ IsInternal(ModuleOf(Cap.raw))

CurKey == ModuleKey(ModuleOf(Cap.raw), SCRIPT_PATH)

Rewritten == Rewrite(Top.code_content, Cap.whole, Cap.raw, FileName(CurKey))

\* visited_nodes.contains(&module)
IsVisited(key) == key \in visited_nodes

\* the insertion forgotten
MarkVisited_Forgotten(key) == visited_nodes

\* visited_nodes.insert(module.clone())
MarkVisited(key) == visited_nodes \cup {key}

\* an internal module whose key was visited: the rewrite, then continue
DepsVisited ==
    /\ InternalMiss
    /\ IsVisited(CurKey)
    /\ stack' = SetTop([Top EXCEPT !.i = @ + 1, !.code_content = Rewritten])
    /\ steps' = steps + 1
    /\ UNCHANGED << pc, visited_nodes, install_string, logs, code_content, files, todo,
                    procs, job_result, fetched, written, scanned >>
    /\ UnchangedJob

\* a script that the store does not hold raised as an error
DepsFetch_AbsentRaises ==
    /\ InternalMiss
    /\ ~IsVisited(CurKey)
    /\ visited_nodes' = MarkVisited(CurKey)
    /\ fetched' = Append(fetched, [key |-> CurKey, raw |-> Cap.raw,
                                   got |-> IF StoreGet(CurKey).some THEN "some" ELSE "none"])
    /\ steps' = steps + 1
    /\ LET got == StoreGet(CurKey)
           here == [Top EXCEPT !.code_content = Rewritten]
       IN  IF got.some /\ ~Exists(FileName(CurKey))
           THEN /\ stack' = Append(SetTop(here), Frame(got.content, FileName(CurKey)))
                /\ scanned' = Append(scanned, got.content)
                /\ UNCHANGED << pc, job_result >>
           ELSE IF got.some
           THEN /\ stack' = SetTop([here EXCEPT !.i = @ + 1])
                /\ UNCHANGED << scanned, pc, job_result >>
           ELSE /\ stack' = << >>
                /\ pc' = "failed"
                /\ job_result' = Err("fetch")
                /\ UNCHANGED scanned
    /\ UNCHANGED << install_string, logs, code_content, files, todo, procs, written >>
    /\ UnchangedJob

\* an internal module seen for the first time: the rewrite, the key marked,
\* the query, and the recursive call when the script exists and has no file
DepsFetch ==
    /\ InternalMiss
    /\ ~IsVisited(CurKey)
    /\ visited_nodes' = MarkVisited(CurKey)
    /\ fetched' = Append(fetched, [key |-> CurKey, raw |-> Cap.raw,
                                   got |-> IF StoreGet(CurKey).some THEN "some" ELSE "none"])
    /\ steps' = steps + 1
    /\ LET got == StoreGet(CurKey)
           here == [Top EXCEPT !.code_content = Rewritten]
       IN  IF got.some /\ ~Exists(FileName(CurKey))
           THEN /\ stack' = Append(SetTop(here), Frame(got.content, FileName(CurKey)))
                /\ scanned' = Append(scanned, got.content)
           ELSE /\ stack' = SetTop([here EXCEPT !.i = @ + 1])
                /\ UNCHANGED scanned
    /\ UNCHANGED << pc, install_string, logs, code_content, files, todo,
                    procs, job_result, written >>
    /\ UnchangedJob

\* the query fails: the error leaves every activation and the handler
DepsFetchError ==
    /\ InternalMiss
    /\ ~IsVisited(CurKey)
    /\ visited_nodes' = MarkVisited(CurKey)
    /\ fetched' = Append(fetched, [key |-> CurKey, raw |-> Cap.raw, got |-> "error"])
    /\ steps' = steps + 1
    /\ stack' = <<>>
    /\ pc' = "failed"
    /\ job_result' = Err("fetch")
    /\ UNCHANGED << install_string, logs, code_content, files, todo, procs,
                    written, scanned >>
    /\ UnchangedJob

AtReturn == pc = "deps" /\ stack # <<>> /\ Top.i > Len(Top.content)

\* a recursive call returns: the caller writes the returned content
DepsReturnWrite ==
    /\ AtReturn
    /\ Len(stack) > 1
    /\ files' = WriteFile(Top.file_name, Top.code_content)
    /\ written' = Append(written, Top.file_name)
    /\ stack' = [SubSeq(stack, 1, Len(stack) - 1) EXCEPT ![Len(stack) - 1].i = @ + 1]
    /\ steps' = steps + 1
    /\ UNCHANGED << pc, visited_nodes, install_string, logs, code_content, todo,
                    procs, job_result, fetched, scanned >>
    /\ UnchangedJob

\* write_file of a dependency fails
DepsReturnWriteError ==
    /\ AtReturn
    /\ Len(stack) > 1
    /\ stack' = <<>>
    /\ pc' = "failed"
    /\ job_result' = Err("write dependency")
    /\ steps' = steps + 1
    /\ UNCHANGED << visited_nodes, install_string, logs, code_content, files, todo,
                    procs, fetched, written, scanned >>
    /\ UnchangedJob

\* the outermost call returns to handle_powershell_job
DepsReturnRoot ==
    /\ AtReturn
    /\ Len(stack) = 1
    /\ code_content' = Top.code_content
    /\ stack' = <<>>
    /\ pc' = "install"
    /\ steps' = steps + 1
    /\ UNCHANGED << visited_nodes, install_string, logs, files, todo,
                    procs, job_result, fetched, written, scanned >>
    /\ UnchangedJob

\* ---------------------------------------------------------- job handlers
MAIN_PS1 == <<"main.ps1">>
MAIN_SH == <<"main.sh">>
WRAPPER_SH == <<"wrapper.sh">>
RESULT_JSON == <<"result.json">>
RESULT_OUT == <<"result.out">>
RESULT2_OUT == <<"result2.out">>
RUN_CONFIG_PROTO == <<"run.config.proto">>

SENTINEL == <<"No result.out, result2.out or result.json found">>

\* handle_powershell_job up to the call of handle_powershell_deps: the cache
\* entries in lower case, "main" visited, the root script to be resolved
StartPowershell ==
    /\ pc = "start"
    /\ lang = "powershell"
    /\ installed_modules' = { to_lowercase(e) : e \in CACHE_DIR_ENTRIES }
    /\ visited_nodes' = {MAIN_KEY}
    /\ stack' = <<Frame(content, <<>>)>>
    /\ scanned' = <<content>>
    /\ pc' = "deps"
    /\ UNCHANGED << lang, disable_nsjail, content, store, install_string, logs,
                    code_content, files, todo, procs, job_result, fetched, written, steps,
                    reads >>
    /\ UnchangedInputs

\* the descriptor written in direct mode as well
SetupFiles_AlwaysDescriptor(l, no_nsjail) ==
    << IF l = "bash" THEN MAIN_SH ELSE MAIN_PS1, WRAPPER_SH, RESULT_JSON, RESULT_OUT,
       RESULT2_OUT, RUN_CONFIG_PROTO >>

\* the files a handler writes before it starts the script, in order
SetupFiles(l, no_nsjail) ==
    << IF l = "bash" THEN MAIN_SH ELSE MAIN_PS1, WRAPPER_SH, RESULT_JSON, RESULT_OUT,
       RESULT2_OUT >> \o (IF no_nsjail THEN <<>> ELSE <<RUN_CONFIG_PROTO>>)

SetupContent(file_name) ==
    CASE file_name = MAIN_SH -> <<<<"set -e">>>> \o content
      [] file_name = MAIN_PS1 -> <<<<"profile">>>> \o code_content
      [] file_name = WRAPPER_SH -> <<"wrapper">>
      [] file_name = RUN_CONFIG_PROTO -> <<"nsjail config">>
      [] OTHER -> <<>>

\* handle_bash_job starts with its file writes
StartBash ==
    /\ pc = "start"
    /\ lang = "bash"
    /\ todo' = SetupFiles(lang, disable_nsjail)
    /\ pc' = "setup"
    /\ UNCHANGED << lang, disable_nsjail, content, store, installed_modules, stack,
                    visited_nodes, install_string, logs, code_content, files, procs,
                    job_result, fetched, written, scanned, steps, reads >>
    /\ UnchangedInputs

Proc(label, program, nsjail, args, env) ==
    [label |-> label, program |-> program, nsjail |-> nsjail, args |-> args,
     env |-> env, status |-> "running"]

UnchangedPass ==
    /\ UNCHANGED << lang, disable_nsjail, content, store, installed_modules, stack,
                    visited_nodes, install_string, logs, code_content, fetched, written,
                    scanned, steps, reads >>
    /\ UnchangedInputs

\* if !install_string.is_empty(): false, nothing to install
InstallSkip ==
    /\ pc = "install"
    /\ install_string = <<>>
    /\ todo' = SetupFiles(lang, disable_nsjail)
    /\ pc' = "setup"
    /\ UNCHANGED << files, procs, job_result >>
    /\ UnchangedPass

\* the install run like the script, through the sandbox binary
InstallSpawn_Sandboxed ==
    /\ pc = "install"
    /\ install_string # <<>>
    /\ procs' = Append(procs, Proc("powershell install",
                                   IF disable_nsjail THEN "pwsh" ELSE "nsjail",
                                   ~disable_nsjail, install_string, WORKER_ENV))
    /\ pc' = "install_wait"
    /\ UNCHANGED << files, todo, job_result >>
    /\ UnchangedPass

\* Command::new("pwsh").args(["-Command", &install_string]).spawn()
InstallSpawn ==
    /\ pc = "install"
    /\ install_string # <<>>
    /\ procs' = Append(procs, Proc("powershell install", "pwsh", FALSE, install_string,
                                   WORKER_ENV))
    /\ pc' = "install_wait"
    /\ UNCHANGED << files, todo, job_result >>
    /\ UnchangedPass

InstallSpawnError ==
    /\ pc = "install"
    /\ install_string # <<>>
    /\ pc' = "failed"
    /\ job_result' = Err("spawn")
    /\ UNCHANGED << files, todo, procs >>
    /\ UnchangedPass

SetStatus(st) == [procs EXCEPT ![Len(procs)].status = st]

\* handle_child of the install process returns Ok
InstallExit ==
    /\ pc = "install_wait"
    /\ procs' = SetStatus("ok")
    /\ todo' = SetupFiles(lang, disable_nsjail)
    /\ pc' = "setup"
    /\ UNCHANGED << files, job_result >>
    /\ UnchangedPass

\* handle_child of the install process returns an error
InstallFail ==
    /\ pc = "install_wait"
    /\ procs' = SetStatus("failed")
    /\ pc' = "failed"
    /\ job_result' = Err("child")
    /\ UNCHANGED << files, todo >>
    /\ UnchangedPass

\* write_file of the next setup file
SetupWrite ==
    /\ pc = "setup"
    /\ todo # <<>>
    /\ files' = WriteFile(Head(todo), SetupContent(Head(todo)))
    /\ todo' = Tail(todo)
    /\ UNCHANGED << pc, procs, job_result >>
    /\ UnchangedPass

SetupWriteError ==
    /\ pc = "setup"
    /\ todo # <<>>
    /\ pc' = "failed"
    /\ job_result' = Err("write")
    /\ UNCHANGED << files, todo, procs >>
    /\ UnchangedPass

\* the value bound to a parameter: the argument of that name, or nothing
ArgOf(name) == IF name \in DOMAIN job_args THEN raw_to_string(job_args[name]) ELSE << >>

RECURSIVE Flatten(_)
Flatten(ss) == IF ss = << >> THEN << >> ELSE Head(ss) \o Flatten(Tail(ss))

\* handle_bash_job: the values, in the order of the signature
args_owned == [i \in 1..Len(sig) |-> ArgOf(sig[i])]

\* handle_powershell_job: --name and value of every parameter, in that order
pwsh_args == Flatten([i \in 1..Len(sig) |-> << <<"-", "-">> \o sig[i], ArgOf(sig[i]) >>])

JobArgs == IF lang = "bash" THEN args_owned ELSE pwsh_args

NSJAIL_CMD_ARGS ==
    << <<"--config">>, <<"run.config.proto">>, <<"--">>, <<"/bin/bash">>, <<"wrapper.sh">> >>

DIRECT_CMD_ARGS == << <<"wrapper.sh">> >>

\* the worker's environment kept
MainEnv_Inherited ==
    LET e1 == IF disable_nsjail THEN Envs(WORKER_ENV, envs) ELSE WORKER_ENV
        e2 == Envs(e1, reserved_variables)
        e3 == IF lang = "powershell" THEN Env(e2, "TZ", "TZ_ENV") ELSE e2
        e4 == Env(Env(e3, "PATH", "PATH_ENV"), "BASE_INTERNAL_URL", "base_internal_url")
    IN  IF disable_nsjail THEN Env(e4, "HOME", "HOME_ENV") ELSE e4

\* the environment of the script's process: cleared, then envs (direct mode
\* only), the reserved variables, TZ (powershell only), PATH,
\* BASE_INTERNAL_URL, and HOME (direct mode only)
MainEnv ==
    LET e0 == env_clear(WORKER_ENV)
        e1 == IF disable_nsjail THEN Envs(e0, envs) ELSE e0
        e2 == Envs(e1, reserved_variables)
        e3 == IF lang = "powershell" THEN Env(e2, "TZ", "TZ_ENV") ELSE e2
        e4 == Env(Env(e3, "PATH", "PATH_ENV"), "BASE_INTERNAL_URL", "base_internal_url")
    IN  IF disable_nsjail THEN Env(e4, "HOME", "HOME_ENV") ELSE e4

\* the command of the script: the sandbox binary on the descriptor and the
\* wrapper, or the shell on the wrapper, followed by the job's arguments
MainProc ==
    IF ~disable_nsjail
    THEN Proc(IF lang = "bash" THEN "bash run" ELSE "powershell run", "nsjail", TRUE,
              NSJAIL_CMD_ARGS \o JobArgs, MainEnv)
    ELSE Proc(IF lang = "bash" THEN "bash run" ELSE "powershell run", "/bin/bash", FALSE,
              DIRECT_CMD_ARGS \o JobArgs, MainEnv)

\* the script started while setup files are still to be written
SpawnMain_BeforeSetupEnds ==
    /\ pc = "setup"
    /\ \A i \in DOMAIN procs : procs[i].label = "powershell install"
    /\ procs' = Append(procs, MainProc)
    /\ pc' = IF todo = <<>> THEN "wait" ELSE pc
    /\ UNCHANGED << files, todo, job_result >>
    /\ UnchangedPass

SpawnMain ==
    /\ pc = "setup"
    /\ todo = <<>>
    /\ procs' = Append(procs, MainProc)
    /\ pc' = "wait"
    /\ UNCHANGED << files, todo, job_result >>
    /\ UnchangedPass

SpawnMainError ==
    /\ pc = "setup"
    /\ todo = <<>>
    /\ pc' = "failed"
    /\ job_result' = Err("spawn")
    /\ UNCHANGED << files, todo, procs >>
    /\ UnchangedPass

\* what the script and its wrapper may leave in a result file
JSON_OBJ == <<"{", "a", ":", "1", "}">>
BAD_JSON == <<"o", "o", "p", "s">>
TEXT_42 == <<" ", " ", "4", "2", "\n">>
ABSENT == <<"absent">>

ResultJsonStates == {ABSENT, <<>>, JSON_OBJ, BAD_JSON}
ResultOutStates == {ABSENT, <<>>, TEXT_42}
Result2OutStates == {ABSENT, <<>>, TEXT_42}

Leave(fs, file_name, c) ==
    IF c = ABSENT
    THEN [n \in DOMAIN fs \ {file_name} |-> fs[n]]
    ELSE [n \in DOMAIN fs \cup {file_name} |-> IF n = file_name THEN c ELSE fs[n]]

\* handle_child of the script returns Ok; the script has run in job_dir
ChildExit ==
    /\ pc = "wait"
    /\ \E rj \in ResultJsonStates, ro \in ResultOutStates, r2 \in Result2OutStates :
         files' = Leave(Leave(Leave(files, RESULT_JSON, rj), RESULT_OUT, ro), RESULT2_OUT, r2)
    /\ procs' = SetStatus("ok")
    /\ pc' = "extract"
    /\ UNCHANGED << todo, job_result >>
    /\ UnchangedPass

\* the failure of the script ignored
ChildFail_ThenExtract ==
    /\ pc = "wait"
    /\ \E rj \in ResultJsonStates, ro \in ResultOutStates, r2 \in Result2OutStates :
         files' = Leave(Leave(Leave(files, RESULT_JSON, rj), RESULT_OUT, ro), RESULT2_OUT, r2)
    /\ procs' = SetStatus("failed")
    /\ pc' = "extract"
    /\ UNCHANGED << todo, job_result >>
    /\ UnchangedPass

\* handle_child of the script returns an error: exit code, timeout, cancel;
\* the script may have left artifacts before it ended
ChildFail ==
    /\ pc = "wait"
    /\ \E rj \in ResultJsonStates, ro \in ResultOutStates, r2 \in Result2OutStates :
         files' = Leave(Leave(Leave(files, RESULT_JSON, rj), RESULT_OUT, ro), RESULT2_OUT, r2)
    /\ procs' = SetStatus("failed")
    /\ pc' = "failed"
    /\ job_result' = Err("child")
    /\ UNCHANGED << todo >>
    /\ UnchangedPass

\* ------------------------------------------------------ result extraction
IsSpace(c) == c \in {" ", "\n", "\t", "\r"}

RECURSIVE TrimStart(_)
TrimStart(s) == IF s # <<>> /\ IsSpace(Head(s)) THEN TrimStart(Tail(s)) ELSE s

RECURSIVE TrimEnd(_)
TrimEnd(s) ==
    IF s # <<>> /\ IsSpace(s[Len(s)]) THEN TrimEnd(SubSeq(s, 1, Len(s) - 1)) ELSE s

\* the content taken as it is
trim_Nothing(s) == s

trim(s) == TrimEnd(TrimStart(s))

\* tokio::fs::metadata(path) is Ok and metadata.len() > 0
NonEmptyFile(fs, file_name) == file_name \in DOMAIN fs /\ Len(fs[file_name]) > 0

\* read_file: the content as a JSON value, an error when it is none
ValidJson(c) == c \in {JSON_OBJ, TEXT_42}

read_file(c) == IF ValidJson(c) THEN Ok("raw", c) ELSE Err("read")

\* result2.out judged by its size, like the other two
ExtractBash_Result2BySize(fs) ==
    IF NonEmptyFile(fs, RESULT_JSON) THEN read_file(fs[RESULT_JSON])
    ELSE IF NonEmptyFile(fs, RESULT_OUT) THEN Ok("string", fs[RESULT_OUT])
    ELSE IF NonEmptyFile(fs, RESULT2_OUT) THEN Ok("string", trim(fs[RESULT2_OUT]))
    ELSE Ok("string", SENTINEL)

\* a missing result raised as an error
ExtractBash_MissingRaises(fs) ==
    IF NonEmptyFile(fs, RESULT_JSON) THEN read_file(fs[RESULT_JSON])
    ELSE IF NonEmptyFile(fs, RESULT_OUT) THEN Ok("string", fs[RESULT_OUT])
    ELSE IF RESULT2_OUT \in DOMAIN fs THEN Ok("string", trim(fs[RESULT2_OUT]))
    ELSE Err("read")

\* the end of handle_bash_job
ExtractBash(fs) ==
    IF NonEmptyFile(fs, RESULT_JSON) THEN read_file(fs[RESULT_JSON])
    ELSE IF NonEmptyFile(fs, RESULT_OUT) THEN Ok("string", fs[RESULT_OUT])
    ELSE IF RESULT2_OUT \in DOMAIN fs THEN Ok("string", trim(fs[RESULT2_OUT]))
    ELSE Ok("string", SENTINEL)

\* the end of handle_powershell_job
ExtractPowershell(fs) ==
    IF RESULT2_OUT \in DOMAIN fs THEN Ok("string", trim(fs[RESULT2_OUT]))
    ELSE Ok("string", SENTINEL)

\* the artifacts handle_bash_job consults, in order, until one gives the result
ConsultedBash(fs) ==
    IF NonEmptyFile(fs, RESULT_JSON) THEN <<RESULT_JSON>>
    ELSE IF NonEmptyFile(fs, RESULT_OUT) THEN <<RESULT_JSON, RESULT_OUT>>
    ELSE <<RESULT_JSON, RESULT_OUT, RESULT2_OUT>>

Extract ==
    /\ pc = "extract"
    /\ job_result' = IF lang = "bash" THEN ExtractBash(files) ELSE ExtractPowershell(files)
    /\ reads' = reads \o (IF lang = "bash" THEN ConsultedBash(files) ELSE <<RESULT2_OUT>>)
    /\ pc' = IF job_result'.tag = "ok" THEN "done" ELSE "failed"
    /\ UNCHANGED << files, todo, procs >>
    /\ UNCHANGED << lang, disable_nsjail, content, store, installed_modules, stack,
                    visited_nodes, install_string, logs, code_content, fetched, written,
                    scanned, steps >>
    /\ UnchangedInputs

\* ---------------------------------------------------------- specification
Next ==
    \/ StartBash
    \/ StartPowershell
    \/ DepsNoImport
    \/ DepsCacheHit
    \/ DepsExternal
    \/ DepsVisited
    \/ DepsFetch
    \/ DepsFetchError
    \/ DepsReturnWrite
    \/ DepsReturnWriteError
    \/ DepsReturnRoot
    \/ InstallSkip
    \/ InstallSpawn
    \/ InstallSpawnError
    \/ InstallExit
    \/ InstallFail
    \/ SetupWrite
    \/ SetupWriteError
    \/ SpawnMain
    \/ SpawnMainError
    \/ ChildExit
    \/ ChildFail
    \/ Extract

Spec == Init /\ [][Next]_vars

\* one resolution pass: handle_powershell_job from its start to the return of
\* handle_powershell_deps
NextDeps ==
    \/ StartPowershell
    \/ DepsNoImport
    \/ DepsCacheHit
    \/ DepsExternal
    \/ DepsVisited
    \/ DepsFetch
    \/ DepsFetchError
    \/ DepsReturnWrite
    \/ DepsReturnWriteError
    \/ DepsReturnRoot

SpecDeps == InitDeps /\ [][NextDeps]_vars

\* a job up to the start of its script, with parameters, arguments and envs:
\* the script holds no import statement
InitRun ==
    /\ lang \in {"bash", "powershell"}
    /\ content = <<CODE_LINE>>
    /\ store = [k \in StoreKeys |-> None]
    /\ InitCommon
    /\ envs \in EnvsGiven
    /\ job_args \in ArgMaps
    /\ sig \in Signatures
    /\ InitNoPath
    /\ InitOneJob

NextRun ==
    \/ StartBash
    \/ StartPowershell
    \/ DepsNoImport
    \/ DepsReturnRoot
    \/ InstallSkip
    \/ SetupWrite
    \/ SetupWriteError
    \/ SpawnMain
    \/ SpawnMainError

SpecRun == InitRun /\ [][NextRun]_vars

\* parse_path applied to a path
ParsePath ==
    /\ ~parsed.done
    /\ parsed' = [done |-> TRUE, result |-> parse_path(path)]
    /\ UNCHANGED << lang, disable_nsjail, content, store, pc, installed_modules, stack,
                    visited_nodes, install_string, logs, code_content, files, todo, procs,
                    job_result, fetched, written, scanned, steps, envs, job_args, sig,
                    reads, path, cur, parked >>

InitPath ==
    /\ lang = "powershell"
    /\ content = << >>
    /\ store = [k \in StoreKeys |-> None]
    /\ InitCommon
    /\ InitNoArgs
    /\ path \in Paths
    /\ parsed = NotParsed
    /\ InitOneJob

NextPath == ParsePath

SpecPath == InitPath /\ [][NextPath]_vars

\* two powershell jobs on one worker, each in its resolution pass.  The
\* variables of the handler hold the locals of job cur; the locals of the
\* other job are parked.  The store and the module cache are shared, and the
\* file system is: files is the directory of job cur.
Locals ==
    [ content |-> content, pc |-> pc, installed_modules |-> installed_modules,
      stack |-> stack, visited_nodes |-> visited_nodes, install_string |-> install_string,
      logs |-> logs, code_content |-> code_content, files |-> files,
      job_result |-> job_result, fetched |-> fetched, written |-> written,
      scanned |-> scanned, steps |-> steps ]

\* the worker turns to the other job
Switch ==
    /\ parked.pc # "none"
    /\ cur' = 3 - cur
    /\ parked' = [Locals EXCEPT !.files = IF job_dir(cur') = job_dir(cur)
                                           THEN parked.files ELSE files]
    /\ content' = parked.content
    /\ pc' = parked.pc
    /\ installed_modules' = parked.installed_modules
    /\ stack' = parked.stack
    /\ visited_nodes' = parked.visited_nodes
    /\ install_string' = parked.install_string
    /\ logs' = parked.logs
    /\ code_content' = parked.code_content
    /\ files' = IF job_dir(cur') = job_dir(cur) THEN files ELSE parked.files
    /\ job_result' = parked.job_result
    /\ fetched' = parked.fetched
    /\ written' = parked.written
    /\ scanned' = parked.scanned
    /\ steps' = parked.steps
    /\ UNCHANGED << lang, disable_nsjail, store, todo, procs, envs, job_args, sig, reads,
                    path, parsed >>

InitTwo ==
    /\ lang = "powershell"
    /\ InitCommon
    /\ InitNoArgs
    /\ InitNoPath
    /\ cur = 1
    /\ \E n1 \in 0..MaxLines, n2 \in 0..MaxLines, na \in 0..MaxLines :
         /\ n1 + n2 + na <= MaxTwoJobLines
         /\ content \in [1..n1 -> TwoJobLines]
         /\ \E c2 \in [1..n2 -> TwoJobLines] :
              parked = [ content |-> c2, pc |-> "start", installed_modules |-> {},
                         stack |-> << >>, visited_nodes |-> {}, install_string |-> << >>,
                         logs |-> << >>, code_content |-> << >>, files |-> << >>,
                         job_result |-> NoResult, fetched |-> << >>, written |-> << >>,
                         scanned |-> << >>, steps |-> 0 ]
         /\ \E ra \in { Some(c) : c \in [1..na -> TwoJobLines] }
                         \cup (IF na = 0 THEN {None} ELSE {}) :
              store = [k \in StoreKeys |-> IF k = KEY_A THEN ra ELSE None]

NextTwo ==
    \/ Switch
    \/ NextDeps

SpecTwo == InitTwo /\ [][NextTwo]_vars

\* ------------------------------------------------------ shared vocabulary
FetchedKeys == [i \in DOMAIN fetched |-> fetched[i].key]

NoRepeat(seq) == \A i, j \in DOMAIN seq : seq[i] = seq[j] => i = j

ImportLine(raw) == <<IM>> \o raw

\* the resolution pass has returned to handle_powershell_job
PassReturned == lang = "powershell" /\ pc \notin {"start", "deps"} /\ job_result.error \notin {"fetch", "write dependency"}

\* the scripts the store holds
StoredScripts == { k \in StoreKeys : store[k].some }

\* ---------------------------------------------------------------- claims

\* C1: one resolution pass terminates, and within it every canonical module
\* key is queried in the store at most once and its local file is written at
\* most once, whatever the import graph (acyclic, cyclic, diamond).
\* Termination is stated as a bound: until it returns the pass is at a line
\* or at a return, where a step is possible, and it takes at most one step
\* per line and one per return of the root and of the stored scripts.
C1_PassTerminatesOncePerKey ==
    /\ NoRepeat(FetchedKeys)
    /\ NoRepeat(written)
    /\ steps <= LinesIn(store, content) + Cardinality(StoredScripts) + 1
    /\ Len(stack) <= Cardinality(StoredScripts) + 1
    /\ (pc = "deps" => AtLine \/ AtReturn)

\* C1 witness: a pass over a cyclic graph (root -> f/a -> f/b -> f/a) has
\* returned with both dependencies written
C1_Witness ==
    /\ pc = "install"
    /\ written = <<FileName(KEY_B), FileName(KEY_A)>>
    /\ \E i \in DOMAIN store[KEY_A].content :
         store[KEY_A].content[i] = ImportLine(<<".", "/", "b">>)
    /\ \E i \in DOMAIN store[KEY_B].content :
         store[KEY_B].content[i] = ImportLine(KEY_A)

\* C2: an import, at any depth, of the module whose canonical key is the root
\* script's own path is aliased to "main", which is visited from the start of
\* the pass: the root's path never enters the visited set, the root is never
\* queried in the store, never resolved a second time and never written as a
\* dependency.
C2_RootAliasedToMain ==
    /\ pc # "start" => MAIN_KEY \in visited_nodes
    /\ SCRIPT_PATH \notin visited_nodes
    /\ \A i \in DOMAIN fetched : fetched[i].key \notin {SCRIPT_PATH, MAIN_KEY}
    /\ \A i \in DOMAIN written : written[i] \notin {FileName(SCRIPT_PATH), FileName(MAIN_KEY)}
    /\ \A i \in DOMAIN scanned : i > 1 => \E k \in StoredScripts : scanned[i] = store[k].content
    /\ Len(scanned) <= Cardinality(StoredScripts) + 1

\* C2 witness: a dependency that imports the root by its path has been
\* resolved and written, and the pass has returned
C2_Witness ==
    /\ pc = "install"
    /\ \E k \in StoredScripts :
         /\ FileName(k) \in DOMAIN files
         /\ \E i \in DOMAIN store[k].content : store[k].content[i] = ImportLine(SCRIPT_PATH)

\* the script's process has ended well and the handler has returned
MainExitedOk ==
    /\ procs # <<>>
    /\ procs[Len(procs)].label \in {"bash run", "powershell run"}
    /\ procs[Len(procs)].status = "ok"

Extracted == MainExitedOk /\ pc \in {"done", "failed"}

AbsentOrEmpty(fs, file_name) == file_name \notin DOMAIN fs \/ fs[file_name] = <<>>

\* the precedence of the result artifacts as the specification states it
Precedence(fs) ==
    IF ~AbsentOrEmpty(fs, RESULT_JSON) THEN Ok("raw", fs[RESULT_JSON])
    ELSE IF ~AbsentOrEmpty(fs, RESULT_OUT) THEN Ok("string", fs[RESULT_OUT])
    ELSE IF RESULT2_OUT \in DOMAIN fs THEN Ok("string", trim(fs[RESULT2_OUT]))
    ELSE Ok("string", SENTINEL)

\* C3 (as claimed): in both pipelines the value a job returns after its
\* script ended well follows the precedence result.json, result.out,
\* result2.out, sentinel (result.json, when it has content, holding JSON).
\* handle_powershell_job reads result2.out alone.
C3_PrecedenceBothPipelines ==
    ( /\ Extracted
      /\ job_result.tag = "ok"
      /\ AbsentOrEmpty(files, RESULT_JSON) \/ ValidJson(files[RESULT_JSON]) )
        => job_result = Precedence(files)

\* C4 (as claimed): when each of the three artifacts is absent or of zero
\* length the job returns the sentinel.
C4_SentinelWhenAllAbsentOrEmpty ==
    ( /\ Extracted
      /\ AbsentOrEmpty(files, RESULT_JSON)
      /\ AbsentOrEmpty(files, RESULT_OUT)
      /\ AbsentOrEmpty(files, RESULT2_OUT) ) => job_result = Ok("string", SENTINEL)

\* C4 (amended): when result.json and result.out are absent or of zero length,
\* the job returns the sentinel if result2.out is absent, and the empty string
\* if result2.out exists with zero length.
C4_SentinelOnlyWhenResult2Absent ==
    ( /\ Extracted
      /\ AbsentOrEmpty(files, RESULT_JSON)
      /\ AbsentOrEmpty(files, RESULT_OUT) ) =>
        /\ RESULT2_OUT \notin DOMAIN files => job_result = Ok("string", SENTINEL)
        /\ (RESULT2_OUT \in DOMAIN files /\ files[RESULT2_OUT] = <<>>)
             => job_result = Ok("string", <<>>)

\* C4 witness: the sentinel is returned over the empty placeholders of
\* result.json and result.out, result2.out being gone
C4_Witness ==
    /\ Extracted
    /\ RESULT_JSON \in DOMAIN files /\ files[RESULT_JSON] = <<>>
    /\ RESULT_OUT \in DOMAIN files /\ files[RESULT_OUT] = <<>>
    /\ RESULT2_OUT \notin DOMAIN files
    /\ job_result = Ok("string", SENTINEL)

InstallProcs == { i \in DOMAIN procs : procs[i].label = "powershell install" }

MainProcs == { i \in DOMAIN procs : procs[i].label \in {"bash run", "powershell run"} }

\* C6: a failed query of the script table, at any depth of the pass, makes
\* handle_powershell_job fail, and no child process (install or script) has
\* been started for the job; while the pass runs no process exists either.
C6_FetchErrorFailsBeforeAnySpawn ==
    /\ job_result.error = "fetch" => (pc = "failed" /\ job_result.tag = "err" /\ procs = <<>>)
    /\ pc \in {"start", "deps"} => procs = <<>>

\* C6 witness: the query failed inside a dependency (the nested script was
\* being resolved and was never written)
C6_Witness ==
    /\ job_result.error = "fetch"
    /\ Len(scanned) = 2
    /\ written = <<>>
    /\ Len(fetched) = 2

\* C7 (as claimed): a job that fails on a file write (a dependency, the main
\* script, the wrapper, a placeholder, the sandbox descriptor) has never
\* started a child process.
C7_SetupErrorBeforeAnySpawn ==
    job_result.error \in {"write", "write dependency"} => procs = <<>>

\* C7 (amended): a job that fails on a file write has never started the
\* process of its script; in handle_powershell_job the install process, and
\* nothing else, may have been started, and then it has ended well;
\* handle_bash_job has started none.
C7_SetupErrorBeforeScriptSpawn ==
    job_result.error \in {"write", "write dependency"} =>
        /\ MainProcs = {}
        /\ \A i \in InstallProcs : procs[i].status = "ok"
        /\ lang = "bash" => procs = <<>>
        /\ job_result.error = "write dependency" => procs = <<>>

\* C7 witness: a setup write failed after the install process had run
C7_Witness ==
    /\ job_result.error = "write"
    /\ InstallProcs # {}

\* C9: per job at most one install process; it is started only after the
\* whole pass has returned, with every accumulated directive; it has ended
\* well before the script's process is started; it is never run through the
\* sandbox binary; and it exists exactly when the accumulator is not empty.
C9_OneBatchedInstallAfterPass ==
    /\ Cardinality(InstallProcs) <= 1
    /\ \A i \in InstallProcs :
         /\ PassReturned
         /\ stack = <<>>
         /\ procs[i].args = install_string
         /\ install_string # <<>>
         /\ procs[i].program = "pwsh"
         /\ ~procs[i].nsjail
         /\ \A j \in MainProcs : i < j
    /\ MainProcs # {} => \A i \in InstallProcs : procs[i].status = "ok"
    /\ (lang = "powershell" /\ MainProcs # {} /\ install_string # <<>>) => InstallProcs # {}

\* C9 witness: a sandboxed job is done whose only directive came from a
\* dependency of the root, installed by one process ahead of the script
C9_Witness ==
    /\ pc = "done"
    /\ ~disable_nsjail
    /\ Len(scanned) = 2
    /\ \A i \in DOMAIN content : ~RE_POWERSHELL_IMPORTS(content[i]).raw = <<"E", "x", "t">>
    /\ Len(procs) = 2
    /\ procs[1].label = "powershell install"
    /\ procs[1].args = <<<<"E", "x", "t">>>>
    /\ procs[2].program = "nsjail"

Count(seq, x) == Cardinality({ i \in DOMAIN seq : seq[i] = x })

\* the import statements, over all the scripts the pass resolved, that name raw
Captures(raw) ==
    UNION { { <<j, i>> : i \in { n \in DOMAIN scanned[j] :
                                   /\ RE_POWERSHELL_IMPORTS(scanned[j][n]).matched
                                   /\ RE_POWERSHELL_IMPORTS(scanned[j][n]).raw = raw } }
            : j \in DOMAIN scanned }

\* the name of an external module that is not in the cache
ExternalMiss(raw) ==
    /\ to_lowercase(ModuleOf(raw)) \notin installed_modules
    /\ ~IsInternal(ModuleOf(raw))

\* the name of a module that is in the cache
CacheHit(raw) == to_lowercase(ModuleOf(raw)) \in installed_modules

\* C8 (as claimed): after the pass every external cache-missing module named
\* by an import statement of the root or of a resolved dependency has exactly
\* one directive in the accumulator, however often it is named.
C8_OneDirectivePerModule ==
    pc = "install" =>
        \A raw \in RawNames :
            (ExternalMiss(raw) /\ Captures(raw) # {}) => Count(install_string, raw) = 1

\* C8 (amended): after the pass the accumulator holds, for every external
\* cache-missing module, one directive per import statement that names it in
\* the root and the resolved dependencies (n statements give n directives),
\* and nothing else.
C8_OneDirectivePerImportStatement ==
    pc = "install" =>
        /\ \A raw \in RawNames :
               ExternalMiss(raw) => Count(install_string, raw) = Cardinality(Captures(raw))
        /\ \A i \in DOMAIN install_string : ExternalMiss(install_string[i])

\* C8 witness: the root and one dependency each name the external module
\* once, and the accumulator holds two directives for it
C8_Witness ==
    /\ pc = "install"
    /\ Len(scanned) = 2
    /\ Count(content, ImportLine(<<"E", "x", "t">>)) = 1
    /\ install_string = << <<"E", "x", "t">>, <<"E", "x", "t">> >>

\* the import statements of cached modules are the same in src and in out
CacheHitLinesKept(src, out) ==
    \A i \in DOMAIN src :
        ( /\ RE_POWERSHELL_IMPORTS(src[i]).matched
          /\ CacheHit(RE_POWERSHELL_IMPORTS(src[i]).raw) ) => out[i] = src[i]

\* C10 (as claimed): a module whose name matches a cache entry without regard
\* to case adds no directive, causes no query of the store, and its import
\* statement is unchanged in the content the resolver returns (for the root)
\* and writes (for a dependency).
C10_CacheHitUntouched ==
    /\ \A i \in DOMAIN install_string : ~CacheHit(install_string[i])
    /\ \A i \in DOMAIN fetched : ~CacheHit(fetched[i].raw)
    /\ pc = "install" => CacheHitLinesKept(content, code_content)
    /\ \A k \in StoredScripts :
         FileName(k) \in DOMAIN files => CacheHitLinesKept(store[k].content, files[FileName(k)])

\* the names the claim allows in the environment of the script's process
AllowList ==
    DOMAIN reserved_variables \cup {"PATH", "BASE_INTERNAL_URL"}
        \cup (IF lang = "powershell" THEN {"TZ"} ELSE {})
        \cup (IF disable_nsjail THEN {"HOME"} ELSE {})

\* the value the handler gives to an allow-listed variable
FixedValue(n) ==
    CASE n = "PATH" -> "PATH_ENV"
      [] n = "BASE_INTERNAL_URL" -> "base_internal_url"
      [] n = "TZ" -> "TZ_ENV"
      [] n = "HOME" -> "HOME_ENV"
      [] OTHER -> reserved_variables[n]

\* C11 (as claimed): the environment of the process that runs the script
\* holds allow-listed variables only (reserved variables, RUST_LOG, PATH,
\* BASE_INTERNAL_URL, TZ for powershell, HOME in direct mode), in sandboxed
\* and in direct mode.
C11_OnlyAllowListed ==
    \A i \in MainProcs : DOMAIN procs[i].env \subseteq AllowList

\* C11 (amended): the environment of the process that runs the script holds
\* the allow-listed variables with the values the handler gives them, and in
\* direct mode also the variables of the handler's parameter envs, which
\* override no allow-listed variable; nothing of the worker's own environment
\* is inherited, and in sandboxed mode nothing but the allow-list is there.
C11_AllowListAndGivenEnvs ==
    \A i \in MainProcs :
        LET e == procs[i].env
        IN  /\ DOMAIN e = AllowList \cup (IF disable_nsjail THEN DOMAIN envs ELSE {})
            /\ \A n \in DOMAIN e :
                   e[n] = IF n \in AllowList THEN FixedValue(n) ELSE envs[n]
            /\ \A n \in DOMAIN e : e[n] # "worker"

\* C11 witness: a script started in direct mode whose environment holds a
\* variable of envs beside the allow-listed ones
C11_Witness ==
    /\ pc = "wait"
    /\ disable_nsjail
    /\ "WHITELISTED" \in DOMAIN procs[Len(procs)].env
    /\ procs[Len(procs)].env["WHITELISTED"] = "envs"
    /\ procs[Len(procs)].env["PATH"] = "PATH_ENV"
    /\ procs[Len(procs)].env["WM_TOKEN"] = "reserved"

\* what the claim binds to an argument given as raw JSON text: a string
\* without its quotes, any other value in its textual form
Unwrapped(x) ==
    CASE x = JSON_X -> <<"x">>
      [] x = JSON_EMPTY_STRING -> << >>
      [] x = JSON_ONE -> <<"1">>
      [] x = JSON_ARRAY -> <<"[", "1", ",", "2", "]">>
      [] x = JSON_NULL -> <<"n", "u", "l", "l">>

\* what the claim binds to a parameter
Bound(name) == IF name \in DOMAIN job_args THEN Unwrapped(job_args[name]) ELSE << >>

\* the arguments of a command after its first n
After(args, n) == SubSeq(args, n + 1, Len(args))

\* the arguments the script's process gets after the wrapper
ScriptArgs(i) == After(procs[i].args, IF procs[i].nsjail THEN 5 ELSE 1)

\* C13: every parameter of the signature is bound to the unwrapped string of
\* its argument if that is a JSON string, to the textual JSON form if it is
\* another JSON value, and to the empty string if the argument is absent;
\* handle_bash_job passes the values in the order of the signature,
\* handle_powershell_job passes --name and value of each parameter in that
\* order.
C13_ArgumentsBound ==
    \A i \in MainProcs :
        IF lang = "bash"
        THEN /\ Len(ScriptArgs(i)) = Len(sig)
             /\ \A k \in DOMAIN sig : ScriptArgs(i)[k] = Bound(sig[k])
        ELSE /\ Len(ScriptArgs(i)) = 2 * Len(sig)
             /\ \A k \in DOMAIN sig :
                    /\ ScriptArgs(i)[2 * k - 1] = <<"-", "-">> \o sig[k]
                    /\ ScriptArgs(i)[2 * k] = Bound(sig[k])

\* C13 witness: signature [a, b] with arguments {"a": "x"} has given the
\* powershell script --a x --b and the empty string
C13_Witness ==
    /\ pc = "wait"
    /\ lang = "powershell"
    /\ sig = << <<"a">>, <<"b">> >>
    /\ job_args = [n \in {<<"a">>} |-> JSON_X]
    /\ ScriptArgs(Len(procs)) = << <<"-", "-", "a">>, <<"x">>, <<"-", "-", "b">>, << >> >>

\* C16: run.config.proto is in the job directory if and only if sandboxing
\* is enabled; the script then runs as the sandbox binary on --config
\* run.config.proto -- /bin/bash wrapper.sh and the job's arguments, and
\* without sandboxing as /bin/bash on wrapper.sh and the job's arguments.
C16_DescriptorIffSandboxed ==
    /\ RUN_CONFIG_PROTO \in DOMAIN files => ~disable_nsjail
    /\ \A i \in MainProcs :
         /\ RUN_CONFIG_PROTO \in DOMAIN files <=> ~disable_nsjail
         /\ WRAPPER_SH \in DOMAIN files
         /\ procs[i].nsjail = ~disable_nsjail
         /\ ~disable_nsjail =>
                /\ procs[i].program = "nsjail"
                /\ SubSeq(procs[i].args, 1, 5) =
                     << <<"--config">>, RUN_CONFIG_PROTO, <<"--">>, <<"/bin/bash">>, WRAPPER_SH >>
                /\ After(procs[i].args, 5) = JobArgs
         /\ disable_nsjail =>
                /\ procs[i].program = "/bin/bash"
                /\ SubSeq(procs[i].args, 1, 1) = <<WRAPPER_SH>>
                /\ After(procs[i].args, 1) = JobArgs

\* C16 witness: a sandboxed bash script with two parameters has been started
\* over the descriptor it wrote
C16_Witness ==
    /\ pc = "wait"
    /\ lang = "bash"
    /\ ~disable_nsjail
    /\ Len(sig) = 2
    /\ RUN_CONFIG_PROTO \in DOMAIN files
    /\ procs[Len(procs)].program = "nsjail"

\* the reference the claim expects for an internal module named raw
LocalReference(raw) ==
    <<IM>> \o <<".", "/">> \o FileName(ModuleKey(ModuleOf(raw), SCRIPT_PATH))

\* the name of an internal module that is not in the cache
InternalCacheMiss(raw) ==
    /\ to_lowercase(ModuleOf(raw)) \notin installed_modules
    /\ IsInternal(ModuleOf(raw))

\* every import statement of src that names an internal cache-missing module
\* is, in out, the reference to the module's local file
ReferencesRewritten(src, out) ==
    /\ Len(out) = Len(src)
    /\ \A i \in DOMAIN src :
         ( /\ RE_POWERSHELL_IMPORTS(src[i]).matched
           /\ InternalCacheMiss(RE_POWERSHELL_IMPORTS(src[i]).raw) )
             => out[i] = LocalReference(RE_POWERSHELL_IMPORTS(src[i]).raw)

\* C12 (as claimed): in the content the resolver returns (for the root) and
\* writes (for a dependency), every import statement of an internal
\* cache-missing module references ./<key with '/' replaced by '.'>.ps1, the
\* key being canonical (relative names joined to the root's directory and
\* normalised, the root's own key main), visited or not.
C12_InternalImportsRewritten ==
    pc = "install" =>
        /\ ReferencesRewritten(content, code_content)
        /\ \A k \in StoredScripts :
             FileName(k) \in DOMAIN files
                => ReferencesRewritten(store[k].content, files[FileName(k)])

\* the fold the claim describes, over the segments of a path: '.' and empty
\* segments dropped, '..' removing the last kept segment if there is one,
\* every other segment kept
RECURSIVE LexicalFold(_, _)
LexicalFold(kept, segs) ==
    IF segs = << >> THEN kept
    ELSE IF Head(segs) \in { <<".">>, << >> } THEN LexicalFold(kept, Tail(segs))
    ELSE IF Head(segs) = <<".", ".">>
         THEN LexicalFold(IF kept = << >> THEN kept ELSE SubSeq(kept, 1, Len(kept) - 1),
                          Tail(segs))
    ELSE LexicalFold(Append(kept, Head(segs)), Tail(segs))

\* the path the claim expects: the root marker, if the path begins with it,
\* and the folded segments
Normalized(p) ==
    IF p # << >> /\ p[1] = "/"
    THEN <<"/">> \o JoinSegments(LexicalFold(<< >>, Segments(p)))
    ELSE JoinSegments(LexicalFold(<< >>, Segments(p)))

\* C14: parse_path keeps a leading root marker, drops '.', lets each '..'
\* remove the last pushed segment (nothing when the result is empty or the
\* root alone) and appends every other component; a/b/../c gives a/c,
\* /a/../../b gives /b, and the result holds no '.' and no '..' component.
C14_LexicalFold ==
    /\ parsed.done =>
         /\ parsed.result = Normalized(path)
         /\ \A i \in DOMAIN Segments(parsed.result) :
                Segments(parsed.result)[i] \notin { <<".">>, <<".", ".">> }
    /\ parse_path(<<"a", "/", "b", "/", ".", ".", "/", "c">>) = <<"a", "/", "c">>
    /\ parse_path(<<"/", "a", "/", ".", ".", "/", ".", ".", "/", "b">>) = <<"/", "b">>

\* C14 witness: /a/../../b has been normalised to /b
C14_Witness ==
    /\ path = <<"/", "a", "/", ".", ".", "/", ".", ".", "/", "b">>
    /\ parsed.done
    /\ parsed.result = <<"/", "b">>

\* C15: when result.json and result.out are absent or empty and result2.out
\* exists, the job returns the content of result2.out, trimmed of surrounding
\* white space, as a JSON string ("  42\n" gives "42"); result2.out counts
\* by existing, so an empty one gives the empty string.
C15_LastLineCaptureTrimmed ==
    ( /\ Extracted
      /\ AbsentOrEmpty(files, RESULT_JSON)
      /\ AbsentOrEmpty(files, RESULT_OUT)
      /\ RESULT2_OUT \in DOMAIN files ) =>
        /\ job_result = Ok("string", trim(files[RESULT2_OUT]))
        /\ files[RESULT2_OUT] = TEXT_42 => job_result.value = <<"4", "2">>
        /\ files[RESULT2_OUT] = << >> => job_result.value = << >>

\* C15 witness: a bash job has returned "42" from result2.out alone, over
\* the empty placeholder of result.json
C15_Witness ==
    /\ Extracted
    /\ lang = "bash"
    /\ RESULT_JSON \in DOMAIN files /\ files[RESULT_JSON] = << >>
    /\ RESULT_OUT \notin DOMAIN files
    /\ files[RESULT2_OUT] = TEXT_42
    /\ job_result = Ok("string", <<"4", "2">>)

\* the process of the script, once started
MainFailed ==
    /\ procs # << >>
    /\ procs[Len(procs)].label \in {"bash run", "powershell run"}
    /\ procs[Len(procs)].status = "failed"

\* C19: when the supervisor reports the failure of the script, the job
\* returns that failure and consults no result artifact; a result value is
\* returned, and an artifact consulted, only after the supervisor reported
\* that the script ended well.
C19_FailureReturnedUnread ==
    /\ MainFailed => (pc = "failed" /\ job_result = Err("child") /\ reads = << >>)
    /\ reads # << >> => MainExitedOk
    /\ pc = "extract" => MainExitedOk
    /\ job_result.tag = "ok" => (MainExitedOk /\ pc = "done")
    /\ \A i \in MainProcs : procs[i].status = "running" => (reads = << >> /\ job_result = NoResult)

\* C19 witness: the script failed after it had written result.json, and the
\* job returned the failure without reading it
C19_Witness ==
    /\ MainFailed
    /\ RESULT_JSON \in DOMAIN files /\ files[RESULT_JSON] = JSON_OBJ
    /\ job_result = Err("child")
    /\ reads = << >>

\* the store has just answered a query with no row
AbsentAnswer ==
    /\ Len(fetched') = Len(fetched) + 1
    /\ fetched'[Len(fetched')].got = "none"

\* C17: when the store holds no script for the key of an internal module,
\* the resolver writes no file, does not recurse, raises no error, marks the
\* key visited, rewrites the import statement, and goes on with the next
\* import of the same script.
C17_AbsentScriptSkipped ==
    [][ AbsentAnswer =>
          /\ files' = files
          /\ written' = written
          /\ Len(stack') = Len(stack)
          /\ scanned' = scanned
          /\ pc' = "deps"
          /\ job_result' = NoResult
          /\ fetched'[Len(fetched')].key \in visited_nodes'
          /\ fetched'[Len(fetched')].key \notin visited_nodes
          /\ stack'[Len(stack')].code_content =
                replace_lines(Top.code_content, Cap.whole,
                              <<IM>> \o <<".", "/">> \o FileName(fetched'[Len(fetched')].key))
          /\ stack'[Len(stack')].i = Top.i + 1
          /\ stack'[Len(stack')].content = Top.content ]_vars

\* C17 witness: the pass has returned after a query that found no script;
\* the key is visited, has no file, its statement is rewritten, and a later
\* import of the same script was resolved and written
C17_Witness ==
    /\ pc = "install"
    /\ Len(fetched) = 2
    /\ fetched[1].got = "none"
    /\ fetched[1].key = KEY_A
    /\ KEY_A \in visited_nodes
    /\ FileName(KEY_A) \notin DOMAIN files
    /\ code_content[1] = <<IM, ".", "/", "f", ".", "a", ".", "p", "s", "1">>
    /\ fetched[2].got = "some"
    /\ FileName(KEY_B) \in DOMAIN files

\* the canonical keys of the internal cache-missing modules a script imports
ImportedKeys(script) ==
    { ModuleKey(ModuleOf(RE_POWERSHELL_IMPORTS(script[i]).raw), SCRIPT_PATH) :
        i \in { n \in DOMAIN script :
                  /\ RE_POWERSHELL_IMPORTS(script[n]).matched
                  /\ InternalCacheMiss(RE_POWERSHELL_IMPORTS(script[n]).raw) } }

\* the keys reachable from a set of keys through the scripts the store holds
RECURSIVE ReachFrom(_)
ReachFrom(keys) ==
    LET more == keys \cup UNION { ImportedKeys(store[k].content) : k \in keys \cap StoredScripts }
    IN  IF more = keys THEN keys ELSE ReachFrom(more)

Reachable == ReachFrom(ImportedKeys(content))

\* a script after the rewrite of each of its internal import statements, in
\* the order of its lines
RECURSIVE RewriteAll(_, _, _)
RewriteAll(code, script, i) ==
    IF i > Len(script) THEN code
    ELSE LET c == RE_POWERSHELL_IMPORTS(script[i])
         IN  IF c.matched /\ InternalCacheMiss(c.raw)
             THEN RewriteAll(Rewrite(code, c.whole, c.raw,
                                     FileName(ModuleKey(ModuleOf(c.raw), SCRIPT_PATH))),
                             script, i + 1)
             ELSE RewriteAll(code, script, i + 1)

\* C20: after a pass that returned, over a job directory that held no file,
\* every internal key reachable from the root through the import statements
\* of scripts the store holds, and held by the store, has its local file,
\* and the file holds the script with its import statements rewritten by the
\* resolver; a file exists only when the resolution of its script has
\* returned, so every key that script imports has been visited, and the
\* files of the directory are those of stored scripts.
C20_ReachableModulesWritten ==
    /\ pc = "install" =>
         /\ \A k \in Reachable \cap StoredScripts :
                /\ FileName(k) \in DOMAIN files
                /\ files[FileName(k)] = RewriteAll(store[k].content, store[k].content, 1)
         /\ code_content = RewriteAll(content, content, 1)
    /\ pc \in {"deps", "install"} =>
         /\ \A k \in StoredScripts :
                FileName(k) \in DOMAIN files =>
                    /\ \A n \in DOMAIN stack : stack[n].file_name # FileName(k)
                    /\ ImportedKeys(store[k].content) \subseteq visited_nodes
                    /\ k \in Reachable
         /\ DOMAIN files \subseteq { FileName(k) : k \in StoredScripts }

\* C20 witness: the root imports f/a, f/a imports ./b, the store holds both;
\* the pass has returned, f.b.ps1 was written before f.a.ps1, and f.a.ps1
\* refers to ./f.b.ps1
C20_Witness ==
    /\ pc = "install"
    /\ content = <<ImportLine(KEY_A)>>
    /\ store[KEY_A] = Some(<<ImportLine(<<".", "/", "b">>)>>)
    /\ store[KEY_B].some
    /\ written = <<FileName(KEY_B), FileName(KEY_A)>>
    /\ files[FileName(KEY_A)] = << <<IM>> \o <<".", "/">> \o FileName(KEY_B) >>

\* handle_powershell_deps as the function it is when nothing else runs: the
\* resolution of script from line i on, over the locals and the directory in
\* ctx, code being the content rewritten so far
RECURSIVE DepsAlone(_, _, _, _)
DepsAlone(ctx, script, code, i) ==
    IF i > Len(script) THEN [ctx EXCEPT !.code_content = code]
    ELSE LET c == RE_POWERSHELL_IMPORTS(script[i])
             key == ModuleKey(ModuleOf(c.raw), SCRIPT_PATH)
             code2 == Rewrite(code, c.whole, c.raw, FileName(key))
             seen == [ctx EXCEPT !.visited_nodes = @ \cup {key}]
             sub == DepsAlone(seen, store[key].content, store[key].content, 1)
         IN  IF ~c.matched THEN DepsAlone(ctx, script, code, i + 1)
             ELSE IF to_lowercase(ModuleOf(c.raw)) \in ctx.installed_modules
             THEN DepsAlone([ctx EXCEPT !.logs = Append(@, <<c.raw, "found in cache">>)],
                            script, code, i + 1)
             ELSE IF ~IsInternal(ModuleOf(c.raw))
             THEN DepsAlone([ctx EXCEPT !.logs = Append(@, <<c.raw, "not found in cache">>),
                                        !.install_string = Append(@, c.raw)],
                            script, code, i + 1)
             ELSE IF key \in ctx.visited_nodes THEN DepsAlone(ctx, script, code2, i + 1)
             ELSE IF key \in StoredScripts /\ FileName(key) \notin DOMAIN ctx.files
             THEN DepsAlone([sub EXCEPT
                               !.files = [n \in DOMAIN sub.files \cup {FileName(key)} |->
                                            IF n = FileName(key) THEN sub.code_content
                                            ELSE sub.files[n]],
                               !.written = Append(@, FileName(key))],
                            script, code2, i + 1)
             ELSE DepsAlone(seen, script, code2, i + 1)

\* what a job has when its pass returns, if it runs alone on the worker
Alone(root) ==
    DepsAlone([ installed_modules |-> { to_lowercase(e) : e \in CACHE_DIR_ENTRIES },
                visited_nodes |-> {MAIN_KEY}, install_string |-> << >>, logs |-> << >>,
                files |-> << >>, written |-> << >>, code_content |-> << >> ],
              root, root, 1)

\* the same of a job as it is
PassOf(job) ==
    [ installed_modules |-> job.installed_modules, visited_nodes |-> job.visited_nodes,
      install_string |-> job.install_string, logs |-> job.logs, files |-> job.files,
      written |-> job.written, code_content |-> job.code_content ]

\* C18: two jobs with distinct working directories, their resolution steps
\* interleaved in any order over the same store and the same module cache:
\* when the pass of a job returns, its visited set, its install accumulator,
\* its log buffer, the dependency files it wrote and its directory are what
\* they are when the job runs alone.
C18_JobsIsolated ==
    /\ pc = "install" => PassOf(Locals) = Alone(content)
    /\ parked.pc = "install" => PassOf(parked) = Alone(parked.content)

\* C18 witness: both passes have returned; both jobs import f/a, which the
\* store holds, and each wrote f.a.ps1 into its own directory; one of them
\* accumulated a directive, the other none
C18_Witness ==
    /\ pc = "install"
    /\ parked.pc = "install"
    /\ written = <<FileName(KEY_A)>>
    /\ parked.written = <<FileName(KEY_A)>>
    /\ FileName(KEY_A) \in DOMAIN files
    /\ FileName(KEY_A) \in DOMAIN parked.files
    /\ install_string = << >>
    /\ parked.install_string # << >>

====
